---------------------------- MODULE Spec2Model ----------------------------
(***************************************************************************)
(* A model of telegram/payment/precheckoutquery.py: the PreCheckoutQuery   *)
(* record, its constructor, its de_json factory, its answer shortcut and   *)
(* the equality it inherits through _id_attrs.                             *)
(*                                                                         *)
(* Python values that may be None are written as options: None is the      *)
(* empty tuple and a value v that is not None is the one-element tuple     *)
(* <<v>>.  Dictionaries are functions from key names to values.  A call's  *)
(* outcome is a record [kind, value]: kind "returned" with the returned    *)
(* value, or kind "raised" with the name of the exception.                 *)
(***************************************************************************)
EXTENDS Integers, Sequences, FiniteSets, TLC

VARIABLES rec, last

vars == <<rec, last>>

---------------------------------------------------------------------------
(* Bounds of the model *)

\* query identifiers are 1..MaxId
MaxId == 2

\* total_amount values are -1..MaxAmount
MaxAmount == 1

---------------------------------------------------------------------------
(* Python values *)

None == <<>>

Some(v) == <<v>>

Returned(v) == [kind |-> "returned", value |-> v]

Raised(e) == [kind |-> "raised", value |-> e]

\* the JSON object {} as a wire value
EmptyObject == "{}"

\* d[k] = v on a dictionary
DictSet(d, k, v) == [x \in (DOMAIN d) \cup {k} |-> IF x = k THEN v ELSE d[x]]

\* the dictionary left by d.pop(k)
DictPop(d, k) == [x \in (DOMAIN d) \ {k} |-> d[x]]

\* d.get(k): None when the key is missing
DictGet(d, k) == IF k \in DOMAIN d THEN Some(d[k]) ELSE None

---------------------------------------------------------------------------
(* The wire format and the constructor's signature *)

RequiredWireKeys == {"id", "from", "currency", "total_amount", "invoice_payload"}

OptionalWireKeys == {"shipping_option_id", "order_info"}

WireKeys == RequiredWireKeys \cup OptionalWireKeys

\* keys a wire map may carry beyond the wire format
ExtraKeys == {"bot", "self", "from_user", "new_field"}

\* a slip that would leave shipping_option_id without its default
RequiredParamsWithShippingOption ==
    {"id", "from_user", "currency", "total_amount", "invoice_payload",
     "shipping_option_id"}

\* __init__'s parameters without a default
RequiredParams == {"id", "from_user", "currency", "total_amount", "invoice_payload"}

\* __init__'s named parameters
KnownParams == RequiredParams \cup {"shipping_option_id", "order_info", "bot"}

Ids == 1..MaxId

Amounts == -1..MaxAmount

Bots == {None, Some("bot1")}

Currencies == {"USD", "EUR"}

Payloads == {"payload1", "payload2"}

---------------------------------------------------------------------------
(* The collaborators: TelegramObject, User, OrderInfo *)

\* TelegramObject.parse_data: None for None, else a copy of the dictionary
\* at a fresh address.  h is the heap of dictionaries, data an optional address.
ParseData(h, data) ==
    IF data = None
    THEN [heap |-> h, ref |-> None]
    ELSE [heap |-> [a \in (DOMAIN h) \cup {"copy"} |->
                        IF a = "copy" THEN h[data[1]] ELSE h[a]],
          ref |-> Some("copy")]

\* User.de_json(data, bot): nothing for an empty object, else the user with
\* the client handle passed through
UserDeJson(v, bot) ==
    IF v = EmptyObject THEN None ELSE Some([user |-> v, bot |-> bot])

\* OrderInfo.de_json(data, bot), data an option: nothing for None or {}
OrderInfoDeJson(v, bot) ==
    IF v = None \/ v = Some(EmptyObject)
    THEN None
    ELSE Some([order_info |-> v[1], bot |-> bot])

\* TelegramObject.__eq__ on two records of the class
Equal(a, b) == a.id_attrs = b.id_attrs

---------------------------------------------------------------------------
(* PreCheckoutQuery.__init__ *)

\* a slip that would put a second attribute into the equality key
IdAttrsWithCurrency(self) == <<self.id, self.currency>>

\* self._id_attrs = (self.id,)
IdAttrs(self) == <<self.id>>

\* a slip that would store the amount under a changed value
StoredAmountOffByOne(total_amount) == total_amount - 1

\* self.total_amount = total_amount
StoredAmount(total_amount) == total_amount

\* a slip that would leave shipping_option_id at its default
StoredShippingOptionDropped(kw) == None

\* self.shipping_option_id = shipping_option_id, None by default
StoredShippingOption(kw) == DictGet(kw, "shipping_option_id")

\* the body of __init__ on bound arguments kw (every required one present)
InitBody(kw) ==
    LET self ==
            [id                 |-> kw["id"],
             from_user          |-> kw["from_user"],
             currency           |-> kw["currency"],
             total_amount       |-> StoredAmount(kw["total_amount"]),
             invoice_payload    |-> kw["invoice_payload"],
             shipping_option_id |-> StoredShippingOption(kw),
             order_info         |-> IF "order_info" \in DOMAIN kw
                                    THEN kw["order_info"] ELSE None,
             bot                |-> IF "bot" \in DOMAIN kw THEN kw["bot"] ELSE None]
    IN  [id                 |-> self.id,
         from_user          |-> self.from_user,
         currency           |-> self.currency,
         total_amount       |-> self.total_amount,
         invoice_payload    |-> self.invoice_payload,
         shipping_option_id |-> self.shipping_option_id,
         order_info         |-> self.order_info,
         bot                |-> self.bot,
         id_attrs           |-> IdAttrs(self)]

\* PreCheckoutQuery(**kw): binding the keyword arguments to the signature,
\* then the body.  Names outside the signature go to **_kwargs and are dropped.
New(kw) ==
    IF "self" \in DOMAIN kw
    THEN Raised("TypeError")
    ELSE IF ~(RequiredParams \subseteq DOMAIN kw)
    THEN Raised("TypeError")
    ELSE Returned(Some(InitBody(kw)))

---------------------------------------------------------------------------
(* PreCheckoutQuery.de_json *)

\* a slip that would leave out parse_data and work on the caller's dictionary
DeJsonDataInPlace(h, data) == [heap |-> h, ref |-> data]

\* data = cls.parse_data(data)
DeJsonData(h, data) == ParseData(h, data)

\* a slip that would test "data is None" in place of "not data"
FalsyNoneOnly(h, ref) == ref = None

\* not data: None or an empty dictionary
Falsy(h, ref) == ref = None \/ DOMAIN h[ref[1]] = {}

\* data['from_user'] = User.de_json(data.pop('from'), bot), "from" being a key
FromUserLine(d, bot) ==
    DictSet(DictPop(d, "from"), "from_user", UserDeJson(d["from"], bot))

\* data['order_info'] = OrderInfo.de_json(data.get('order_info'), bot)
OrderInfoLine(d, bot) ==
    DictSet(d, "order_info", OrderInfoDeJson(DictGet(d, "order_info"), bot))

\* cls(bot=bot, **data)
ClsCall(d, bot) ==
    IF "bot" \in DOMAIN d
    THEN Raised("TypeError")
    ELSE New(DictSet(d, "bot", bot))

\* de_json(data, bot): the heap it leaves, its outcome and the calls it made
\* to the nested factories
DeJson(h, data, bot) ==
    LET p == DeJsonData(h, data)
    IN  IF Falsy(p.heap, p.ref)
        THEN [heap |-> p.heap, outcome |-> Returned(None),
              userCalls |-> <<>>, orderInfoCalls |-> <<>>]
        ELSE
        LET a  == p.ref[1]
            d0 == p.heap[a]
        IN  IF "from" \notin DOMAIN d0
            THEN [heap |-> p.heap, outcome |-> Raised("KeyError"),
                  userCalls |-> <<>>, orderInfoCalls |-> <<>>]
            ELSE
            LET d1  == FromUserLine(d0, bot)
                oin == DictGet(d1, "order_info")
                d2  == OrderInfoLine(d1, bot)
            IN  [heap |-> [p.heap EXCEPT ![a] = d2],
                 outcome |-> ClsCall(d2, bot),
                 userCalls |-> <<[data |-> d0["from"], bot |-> bot]>>,
                 orderInfoCalls |-> <<[data |-> oin, bot |-> bot]>>]

---------------------------------------------------------------------------
(* PreCheckoutQuery.answer *)

\* what the client handle's answer_pre_checkout_query may do
BotResponses ==
    {Returned(TRUE), Returned(FALSE), Raised("NetworkError"), Raised("BadRequest")}

\* a slip that would catch the handle's failure and report False
AnswerCallSwallowing(r, args, kwargs, response) ==
    IF r.bot = None
    THEN [calls |-> <<>>, outcome |-> Raised("AttributeError")]
    ELSE [calls |-> <<[handle |-> r.bot[1],
                       method |-> "answer_pre_checkout_query",
                       args   |-> <<r.id>> \o args,
                       kwargs |-> kwargs]>>,
          outcome |-> IF response.kind = "raised" THEN Returned(FALSE) ELSE response]

\* a slip that would report False when no handle is attached
AnswerCallLenient(r, args, kwargs, response) ==
    IF r.bot = None
    THEN [calls |-> <<>>, outcome |-> Returned(FALSE)]
    ELSE [calls |-> <<[handle |-> r.bot[1],
                       method |-> "answer_pre_checkout_query",
                       args   |-> <<r.id>> \o args,
                       kwargs |-> kwargs]>>,
          outcome |-> response]

\* self.bot.answer_pre_checkout_query(self.id, *args, **kwargs) on record r,
\* the handle answering with response
AnswerCall(r, args, kwargs, response) ==
    IF r.bot = None
    THEN [calls |-> <<>>, outcome |-> Raised("AttributeError")]
    ELSE [calls |-> <<[handle |-> r.bot[1],
                       method |-> "answer_pre_checkout_query",
                       args   |-> <<r.id>> \o args,
                       kwargs |-> kwargs]>>,
          outcome |-> response]

---------------------------------------------------------------------------
(* Inputs *)

\* the wire map with keys ks
WireMap(ks, id, from, amount, oinfo) ==
    [k \in ks |->
        CASE k = "id"                 -> id
          [] k = "from"               -> from
          [] k = "currency"           -> "USD"
          [] k = "total_amount"       -> amount
          [] k = "invoice_payload"    -> "payload1"
          [] k = "shipping_option_id" -> "ship1"
          [] k = "order_info"         -> oinfo
          [] k = "from_user"          -> "wire_from_user"
          [] OTHER                    -> "extra"]

\* keyword arguments of a direct constructor call
CtorArgs(ks, id, fromUser, currency, amount, payload, bot) ==
    [k \in ks |->
        CASE k = "id"                 -> id
          [] k = "from_user"          -> fromUser
          [] k = "currency"           -> currency
          [] k = "total_amount"       -> amount
          [] k = "invoice_payload"    -> payload
          [] k = "shipping_option_id" -> "ship2"
          [] k = "order_info"         -> Some([order_info |-> "order1", bot |-> None])
          [] k = "bot"                -> bot
          [] OTHER                    -> "extra"]

Users == {None, Some([user |-> "user1", bot |-> None])}

---------------------------------------------------------------------------
(* The state machine *)

Init ==
    /\ rec = None
    /\ last = [op |-> "init"]

\* a direct call of the constructor
Construct ==
    /\ last.op = "init"
    /\ \E opt \in SUBSET {"shipping_option_id", "order_info", "bot", "new_field"},
       id \in Ids, fromUser \in Users, currency \in Currencies,
       amount \in Amounts, payload \in Payloads, bot \in Bots :
        LET kw  == CtorArgs(RequiredParams \cup opt, id, fromUser, currency, amount,
                            payload, bot)
            out == New(kw)
        IN  /\ last' = [op |-> "new", kw |-> kw, outcome |-> out]
            /\ rec' = IF out.kind = "returned" THEN out.value ELSE None

\* a call of de_json on None
DeJsonNone ==
    /\ last.op = "init"
    /\ \E bot \in Bots :
        LET run == DeJson(<<>>, None, bot)
        IN  /\ last' = [op |-> "de_json", data |-> None, bot |-> bot,
                        heap |-> run.heap, outcome |-> run.outcome,
                        userCalls |-> run.userCalls,
                        orderInfoCalls |-> run.orderInfoCalls]
            /\ rec' = run.outcome.value

\* a call of de_json on a wire map, which the caller holds at address "caller"
DeJsonMap ==
    /\ last.op = "init"
    /\ \E ks \in SUBSET (WireKeys \cup ExtraKeys),
       id \in Ids, from \in {EmptyObject, "user1"}, amount \in Amounts,
       oinfo \in {EmptyObject, "order1"}, bot \in Bots :
        LET m   == WireMap(ks, id, from, amount, oinfo)
            run == DeJson([a \in {"caller"} |-> m], Some("caller"), bot)
        IN  /\ last' = [op |-> "de_json", data |-> Some(m), bot |-> bot,
                        heap |-> run.heap, outcome |-> run.outcome,
                        userCalls |-> run.userCalls,
                        orderInfoCalls |-> run.orderInfoCalls]
            /\ rec' = IF run.outcome.kind = "returned" THEN run.outcome.value ELSE None

\* a call of answer on the record held
Answer ==
    /\ last.op = "handler"
    /\ \E args \in {<<>>, <<TRUE>>, <<FALSE, "sold out">>},
          kwargs \in {<<>>, [ok |-> TRUE]},
          response \in BotResponses :
            LET run == AnswerCall(rec[1], args, kwargs, response)
            IN  last' = [op |-> "answer", self |-> rec[1], args |-> args,
                         kwargs |-> kwargs, response |-> response,
                         calls |-> run.calls, outcome |-> run.outcome]
    /\ UNCHANGED rec

\* a == b between the record held and another one
Eq ==
    /\ last.op = "handler"
    /\ \E opt \in SUBSET {"shipping_option_id", "order_info", "bot"},
          id \in Ids, fromUser \in Users, currency \in Currencies,
          amount \in Amounts, payload \in Payloads, bot \in Bots :
            LET other == InitBody(CtorArgs(RequiredParams \cup opt, id, fromUser,
                                           currency, amount, payload, bot))
            IN  last' = [op |-> "eq", a |-> rec[1], b |-> other,
                         result |-> Equal(rec[1], other)]
    /\ UNCHANGED rec

\* the record just built is handed to the handler of the update
Dispatch ==
    /\ last.op \in {"new", "de_json"}
    /\ rec # None
    /\ last' = [op |-> "handler"]
    /\ UNCHANGED rec

\* the handler returns and the record is discarded
HandlerReturns ==
    /\ last.op # "init"
    /\ rec' = None
    /\ last' = [op |-> "init"]

Next ==
    \/ Construct
    \/ DeJsonNone
    \/ DeJsonMap
    \/ Dispatch
    \/ Answer
    \/ Eq
    \/ HandlerReturns

Spec == Init /\ [][Next]_vars

---------------------------------------------------------------------------
(* Properties *)

\* the de_json call observed in last, on a wire map (not on None)
OnMap == last.op = "de_json" /\ last.data # None

\* that call returned a record
BuiltRecord ==
    /\ OnMap
    /\ last.outcome.kind = "returned"
    /\ last.outcome.value # None

\* C1: equality of records is decided by id alone: two records compare equal
\* exactly when their ids are equal, whatever their other fields hold.
EqualityByIdAlone ==
    last.op = "eq" => (last.result <=> (last.a.id = last.b.id))

\* C1's case: equal ids, every other field different, and the records compare equal
EqualIdsOtherFieldsDiffer ==
    /\ last.op = "eq"
    /\ last.a.id = last.b.id
    /\ last.a.from_user # last.b.from_user
    /\ last.a.currency # last.b.currency
    /\ last.a.total_amount # last.b.total_amount
    /\ last.a.invoice_payload # last.b.invoice_payload
    /\ last.a.shipping_option_id # last.b.shipping_option_id
    /\ last.a.order_info # last.b.order_info
    /\ last.a.bot # last.b.bot
    /\ last.result

\* C2: for every wire map with the five required keys, de_json returns a record
\* whose id, currency, total_amount and invoice_payload are the map's values,
\* whose from_user is User.de_json of the map's "from" with the same bot, and
\* whose bot is the bot passed in.
DeJsonBuildsRecordFromRequiredKeys ==
    (OnMap /\ RequiredWireKeys \subseteq DOMAIN last.data[1]) =>
        /\ BuiltRecord
        /\ LET r == last.outcome.value[1]
               m == last.data[1]
           IN  /\ r.id = m["id"]
               /\ r.currency = m["currency"]
               /\ r.total_amount = m["total_amount"]
               /\ r.invoice_payload = m["invoice_payload"]
               /\ r.from_user = UserDeJson(m["from"], last.bot)
               /\ r.bot = last.bot

\* C3: answer on a record with a client handle makes exactly one call to the
\* handle's answer_pre_checkout_query, with the record's id followed by the
\* caller's arguments unchanged, and its outcome is that call's outcome: the
\* boolean returned, or the failure raised.
AnswerIsPassThrough ==
    (last.op = "answer" /\ last.self.bot # None) =>
        /\ Len(last.calls) = 1
        /\ last.calls[1].handle = last.self.bot[1]
        /\ last.calls[1].method = "answer_pre_checkout_query"
        /\ last.calls[1].args = <<last.self.id>> \o last.args
        /\ last.calls[1].kwargs = last.kwargs
        /\ last.outcome.kind = last.response.kind
        /\ last.outcome.value = last.response.value

\* C3's case: the handle fails on a call with positional arguments
AnswerForwardsFailure ==
    /\ last.op = "answer"
    /\ last.self.bot # None
    /\ last.args = <<FALSE, "sold out">>
    /\ last.response.kind = "raised"
    /\ last.outcome.kind = "raised"

\* C4: answer on a record without a client handle raises (AttributeError) and
\* makes no call to any acknowledgement operation.
AnswerWithoutBotRaises ==
    (last.op = "answer" /\ last.self.bot = None) =>
        /\ last.calls = <<>>
        /\ last.outcome.kind = "raised"
        /\ last.outcome.value = "AttributeError"

\* C4's case: answer was called on a record without a handle
AnswerCalledWithoutBot ==
    /\ last.op = "answer"
    /\ last.self.bot = None
    /\ last.args = <<TRUE>>

\* C5 as stated: on a non-empty wire map de_json does not fail because an
\* optional key is missing, fails only if one of id, currency, total_amount,
\* invoice_payload is absent, and a failure is raised to the caller.
DeJsonFailsOnlyForListedFields ==
    (OnMap /\ DOMAIN last.data[1] # {}) =>
        /\ last.outcome.kind = "raised" =>
             ~({"id", "currency", "total_amount", "invoice_payload"}
                  \subseteq DOMAIN last.data[1])
        /\ last.outcome.kind = "returned" => last.outcome.value # None

\* the keys of a wire map that collide with an argument of cls(bot=bot, **data)
CollidingKeys == {"bot", "self"}

\* C5 amended: on a non-empty wire map de_json fails exactly when one of the
\* required keys id, from, currency, total_amount, invoice_payload is absent
\* or the map carries a key named bot or self; the optional keys play no part,
\* and a failure is raised to the caller, never turned into a None result.
DeJsonFailsExactlyForRequiredKeys ==
    (OnMap /\ DOMAIN last.data[1] # {}) =>
        /\ last.outcome.kind = "raised" <=>
             \/ ~(RequiredWireKeys \subseteq DOMAIN last.data[1])
             \/ CollidingKeys \cap DOMAIN last.data[1] # {}
        /\ last.outcome.kind = "raised" =>
             last.outcome.value =
                 IF "from" \in DOMAIN last.data[1] THEN "TypeError" ELSE "KeyError"
        /\ last.outcome.kind = "returned" => last.outcome.value # None

\* C5's case: the only key missing is "from", and de_json fails
DeJsonFailsWithoutFrom ==
    /\ OnMap
    /\ DOMAIN last.data[1] = WireKeys \ {"from"}
    /\ last.outcome.kind = "raised"

\* C6: de_json on None or on an empty map returns None, raises nothing, calls
\* no nested factory and constructs no record.
DeJsonOfNothingIsNothing ==
    (last.op = "de_json" /\ (last.data = None \/ DOMAIN last.data[1] = {})) =>
        /\ last.outcome.kind = "returned"
        /\ last.outcome.value = None
        /\ last.userCalls = <<>>
        /\ last.orderInfoCalls = <<>>
        /\ rec = None

\* C6's case: de_json was called on the empty map with a client handle
DeJsonCalledOnEmptyMap ==
    /\ OnMap
    /\ DOMAIN last.data[1] = {}
    /\ last.bot # None
    /\ last.outcome.kind = "returned"

\* a wire map in the wire format: the required keys, and no key outside it
ValidWireMap(m) == RequiredWireKeys \subseteq DOMAIN m /\ DOMAIN m \subseteq WireKeys

\* C7: for every valid wire map de_json returns a record, and in every record
\* de_json returns order_info is nothing when the key is absent and
\* OrderInfo.de_json of its value with the same bot when present, and
\* shipping_option_id is nothing when absent and the map's value when present.
OptionalFieldsFollowPresence ==
    /\ (OnMap /\ ValidWireMap(last.data[1])) => BuiltRecord
    /\ BuiltRecord =>
         LET r == last.outcome.value[1]
             m == last.data[1]
         IN  /\ r.order_info =
                    IF "order_info" \in DOMAIN m
                    THEN OrderInfoDeJson(Some(m["order_info"]), last.bot)
                    ELSE None
             /\ r.shipping_option_id =
                    IF "shipping_option_id" \in DOMAIN m
                    THEN Some(m["shipping_option_id"])
                    ELSE None
             /\ Len(last.orderInfoCalls) = 1
             /\ last.orderInfoCalls[1].bot = last.bot

\* C7's case: a valid map with both optional keys, order_info a real object
DeJsonWithBothOptionalKeys ==
    /\ BuiltRecord
    /\ DOMAIN last.data[1] = WireKeys
    /\ last.data[1]["order_info"] # EmptyObject
    /\ last.bot # None
    /\ last.outcome.value[1].order_info # None
    /\ last.outcome.value[1].shipping_option_id # None

\* C8: unrecognized fields are accepted and ignored: a constructor call with
\* keyword fields beyond the known ones, and de_json on a valid wire map that
\* carries additional keys of any name, succeed and give the record that the
\* same call without the additional fields gives.
ExtraFieldsAreIgnored ==
    /\ last.op = "new" =>
         LET known == [k \in (DOMAIN last.kw) \cap KnownParams |-> last.kw[k]]
         IN  /\ last.outcome.kind = "returned"
             /\ New(known).kind = "returned"
             /\ last.outcome.value = New(known).value
    /\ (OnMap /\ RequiredWireKeys \subseteq DOMAIN last.data[1]) =>
         LET m     == last.data[1]
             known == [k \in (DOMAIN m) \cap WireKeys |-> m[k]]
             plain == DeJson([a \in {"caller"} |-> known], Some("caller"), last.bot)
         IN  /\ last.outcome.kind = "returned"
             /\ plain.outcome.kind = "returned"
             /\ last.outcome.value = plain.outcome.value

\* C9 as stated: in every record, total_amount is a non-negative integer.
TotalAmountIsNonNegative ==
    rec # None => rec[1].total_amount >= 0

\* the total_amount handed to the construction observed in last
SuppliedAmount ==
    IF last.op = "new" THEN last.kw["total_amount"] ELSE last.data[1]["total_amount"]

\* C9 amended: in every record, built by the constructor or by de_json,
\* total_amount is the value that was supplied, unvalidated; it is a
\* non-negative integer whenever the supplied value is one.
TotalAmountIsTheSuppliedValue ==
    (last.op \in {"new", "de_json"} /\ rec # None) =>
        /\ rec[1].total_amount = SuppliedAmount
        /\ SuppliedAmount >= 0 => rec[1].total_amount >= 0

\* C9's case: a record built by de_json from a non-negative amount
RecordFromNonNegativeAmount ==
    /\ BuiltRecord
    /\ rec # None
    /\ last.data[1]["total_amount"] >= 0
    /\ rec[1].total_amount >= 0

\* C10: de_json leaves the caller's map as it was, whether it returns or
\* fails ("from" still present, no "from_user" added), and a second call on
\* the same map gives the same outcome as the first.
DeJsonLeavesCallerMapAlone ==
    OnMap =>
        LET before == last.data[1]
            after  == last.heap["caller"]
            again  == DeJson([a \in {"caller"} |-> after], Some("caller"), last.bot)
        IN  /\ DOMAIN after = DOMAIN before
            /\ \A k \in DOMAIN before : after[k] = before[k]
            /\ again.outcome.kind = last.outcome.kind
            /\ again.outcome.value = last.outcome.value
            /\ DOMAIN again.heap["caller"] = DOMAIN before

\* C10's case: a record was built from a map with "from" and without "from_user"
DeJsonBuiltFromCallerMap ==
    /\ BuiltRecord
    /\ "from" \in DOMAIN last.data[1]
    /\ "from_user" \notin DOMAIN last.data[1]
    /\ "order_info" \notin DOMAIN last.data[1]
    /\ "from" \in DOMAIN last.heap["caller"]

===========================================================================
